---- MODULE Spec2Model ----
(***************************************************************************)
(* A model of ecc.py: FieldElement (arithmetic modulo a prime) and Point   *)
(* (the chord-and-tangent group law on y^2 = x^3 + a*x + b and the         *)
(* double-and-add scalar multiplication).                                  *)
(*                                                                         *)
(* Python values are tagged records.  An operation that raises yields a    *)
(* "raise" record, and every operation handed a "raise" record as an       *)
(* operand yields that record: the exception of the first sub-expression   *)
(* to raise, in Python's left-to-right evaluation order, propagates.       *)
(***************************************************************************)
EXTENDS Integers, Sequences, FiniteSets

VARIABLES
    pc,          \* position of the modelled call: "ready", "loop", "done", "raised"
    op,          \* the operation the call applies
    fa, fb,      \* FieldElement operands
    exponent,    \* integer operand of __pow__ / FieldElement.__rmul__
    fres,        \* value of the field operation
    px, py, pa, pb,   \* arguments of Point(x, y, a, b)
    P, Q, R,     \* Point operands
    pres,        \* value of the point operation
    pres2,       \* second value, for operations compared with each other
    coefficient, \* argument of Point.__rmul__
    coef, current, result,   \* locals of Point.__rmul__
    iters        \* completed iterations of the loop of Point.__rmul__

vars == <<pc, op, fa, fb, exponent, fres, px, py, pa, pb, P, Q, R, pres, pres2,
          coefficient, coef, current, result, iters>>

fieldVars == <<fa, fb, exponent, fres>>
ctorVars == <<px, py, pa, pb>>
pointVars == <<P, Q, R, pres, pres2>>
loopVars == <<coefficient, coef, current, result, iters>>

-----------------------------------------------------------------------------
(* Bounds of the model: the fields are those of the primes up to MaxPrime *)
(* (2, 3, 5, 7), and for additions across fields up to MaxMixPrime (2, 3, *)
(* 5); exponents, coefficients and loop passes are bounded as named.      *)

MaxPrime == 10
MaxMixPrime == 6
MaxExp == 8
MaxCoef == 20
MaxNegCoef == 2
MaxIters == 6

IsPrime(n) == n > 1 /\ \A d \in 2..(n - 1) : n % d # 0
PrimesTo(m) == {n \in 2..m : IsPrime(n)}
Primes == PrimesTo(MaxPrime)

-----------------------------------------------------------------------------
(* Python values *)

None == [tag |-> "None"]
Bool(v) == [tag |-> "bool", val |-> v]
Raise(e, m) == [tag |-> "raise", exc |-> e, msg |-> m]
IsRaise(v) == v.tag = "raise"
IsNone(v) == v.tag = "None"
IsFE(v) == v.tag = "FieldElement"
IsPoint(v) == v.tag = "Point"
Unused == [tag |-> "unused"]

RangeError == Raise("ValueError", "not in the field")
IncompatibleFieldError == Raise("TypeError", "different Fields")
DivisionByZeroError == Raise("ValueError", "Cannot divide by 0")
NotOnCurveError == Raise("ValueError", "not in the curve")
IncompatibleCurveError == Raise("TypeError", "not in the same curve")
OperandError == Raise("TypeError", "unsupported operand")
AttributeError == Raise("AttributeError", "NoneType has no attribute")

\* The first of two evaluated operands to have raised, if any.
Raised(l, r) == IF IsRaise(l) THEN l ELSE r
AnyRaise(l, r) == IsRaise(l) \/ IsRaise(r)

-----------------------------------------------------------------------------
(* FieldElement *)

\* FieldElement.__init__
FieldElement(num, prime) ==
    IF num >= prime \/ num < 0
    THEN RangeError
    ELSE [tag |-> "FieldElement", num |-> num, prime |-> prime]

\* Python's pow(base, n, mod) for n >= 0, by squaring; pow(0, 0, mod) is 1 % mod.
RECURSIVE PyPow(_, _, _)
PyPow(base, n, mod) ==
    IF n = 0 THEN 1 % mod
    ELSE LET h == PyPow(base, n \div 2, mod)
             sq == (h * h) % mod
         IN IF n % 2 = 1 THEN (sq * base) % mod ELSE sq

\* FieldElement.__eq__ (and None == other, which Python reflects to it)
FieldEq(self, other) ==
    IF AnyRaise(self, other) THEN Raised(self, other)
    ELSE IF IsNone(self) THEN Bool(IsNone(other))
    ELSE IF IsNone(other) THEN Bool(FALSE)
    ELSE Bool(self.num = other.num /\ self.prime = self.prime)

\* FieldElement.__ne__
FieldNe(self, other) ==
    LET e == FieldEq(self, other)
    IN IF IsRaise(e) THEN e ELSE Bool(~e.val)

\* The operand check common to the binary operations: self is a
\* FieldElement, and reading other.prime fails on None.
BinaryGuard(self, other) ==
    IF AnyRaise(self, other) THEN Raised(self, other)
    ELSE IF IsNone(self) THEN OperandError
    ELSE IF IsNone(other) THEN AttributeError
    ELSE IF self.prime # other.prime THEN IncompatibleFieldError
    ELSE None

\* FieldElement.__add__
FieldAdd(self, other) ==
    LET g == BinaryGuard(self, other)
    IN IF IsRaise(g) THEN g
       ELSE FieldElement((self.num + other.num) % self.prime, self.prime)

\* FieldElement.__sub__
FieldSub(self, other) ==
    LET g == BinaryGuard(self, other)
    IN IF IsRaise(g) THEN g
       ELSE FieldElement((self.num - other.num) % self.prime, self.prime)

\* FieldElement.__mul__
FieldMul(self, other) ==
    LET g == BinaryGuard(self, other)
    IN IF IsRaise(g) THEN g
       ELSE FieldElement((self.num * other.num) % self.prime, self.prime)

\* FieldElement.__pow__
FieldPow(self, e) ==
    IF IsRaise(self) THEN self
    ELSE IF IsNone(self) THEN OperandError
    ELSE LET n == e % (self.prime - 1)
         IN FieldElement(PyPow(self.num, n, self.prime), self.prime)

\* FieldElement.__truediv__
FieldDiv(self, other) ==
    LET g == BinaryGuard(self, other)
    IN IF IsRaise(g) THEN g
       ELSE IF other.num = 0 THEN DivisionByZeroError
       ELSE FieldElement(
                (self.num * PyPow(other.num, self.prime - 2, self.prime)) % self.prime,
                self.prime)

\* FieldElement.__rmul__: c * self for a plain integer c
FieldRMul(c, self) ==
    IF IsRaise(self) THEN self
    ELSE IF IsNone(self) THEN OperandError
    ELSE FieldElement((self.num * c) % self.prime, self.prime)

FieldElementsOf(p) == {FieldElement(n, p) : n \in 0..(p - 1)}
FieldElements == UNION {FieldElementsOf(p) : p \in Primes}

-----------------------------------------------------------------------------
(* The field operations applied to drawn operands *)

NoField == fa = Unused /\ fb = Unused /\ exponent = 0 /\ fres = Unused
NoCtor == px = Unused /\ py = Unused /\ pa = Unused /\ pb = Unused
NoPoint == P = Unused /\ Q = Unused /\ R = Unused /\ pres = Unused /\ pres2 = Unused
NoLoop == /\ coefficient = 0 /\ coef = 0 /\ current = Unused
          /\ result = Unused /\ iters = 0

InitField ==
    /\ pc = "ready" /\ op = "none"
    /\ fa \in FieldElements
    /\ fb \in FieldElements
    /\ exponent \in (-MaxExp)..MaxExp
    /\ fres = Unused
    /\ NoCtor /\ NoPoint /\ NoLoop

Apply(name, value) ==
    /\ pc = "ready"
    /\ pc' = "done"
    /\ op' = name
    /\ fres' = value
    /\ UNCHANGED <<fa, fb, exponent, ctorVars, pointVars, loopVars>>

Eq == Apply("eq", FieldEq(fa, fb))
Ne == Apply("ne", FieldNe(fa, fb))
Add == Apply("add", FieldAdd(fa, fb))
Sub == Apply("sub", FieldSub(fa, fb))
Mul == Apply("mul", FieldMul(fa, fb))
Pow == Apply("pow", FieldPow(fa, exponent))
Div == Apply("div", FieldDiv(fa, fb))
Scale == Apply("rmul", FieldRMul(exponent, fa))

NextField == Eq \/ Ne \/ Add \/ Sub \/ Mul \/ Pow \/ Div \/ Scale

SpecField == InitField /\ [][NextField]_vars

-----------------------------------------------------------------------------
(* Claims about FieldElement *)

\* C1: equals(a, b) is true iff a.num == b.num and a.prime == b.prime (same
\* num under different primes is not equal), and not-equals is its negation.
C1_EqualsComparesNumAndPrime ==
    /\ (pc = "done" /\ op = "eq")
           => fres = Bool(fa.num = fb.num /\ fa.prime = fb.prime)
    /\ (pc = "done" /\ op = "ne")
           => fres = Bool(~(fa.num = fb.num /\ fa.prime = fb.prime))

\* C6: zero raised to a negative exponent fails: pow(FieldElement(0, p), e)
\* with e < 0 raises and returns no FieldElement.
C6_ZeroToNegativePowerRejected ==
    (pc = "done" /\ op = "pow" /\ fa.num = 0 /\ exponent < 0) => IsRaise(fres)

\* The product of e copies of a under mul, e >= 1.
RECURSIVE RepeatedMul(_, _)
RepeatedMul(a, e) == IF e = 1 THEN a ELSE FieldMul(RepeatedMul(a, e - 1), a)

\* C7: for every exponent e >= 1 (e >= prime - 1 included) and every element
\* a (zero included), pow(a, e) is the product of e copies of a under mul.
C7_PowIsRepeatedMul ==
    (pc = "done" /\ op = "pow" /\ exponent >= 1) => fres = RepeatedMul(fa, exponent)

-----------------------------------------------------------------------------
(* Point *)

\* Point._on_curve
OnCurve(x, y, a, b) ==
    FieldEq(FieldPow(y, 2),
            FieldAdd(FieldAdd(FieldPow(x, 3), FieldMul(a, x)), b))

\* Point.__init__
Point(x, y, a, b) ==
    IF AnyRaise(x, y) THEN Raised(x, y)
    ELSE IF IsNone(x) /\ IsNone(y)
         THEN [tag |-> "Point", x |-> x, y |-> y, a |-> a, b |-> b]
    ELSE LET on == OnCurve(x, y, a, b)
         IN IF IsRaise(on) THEN on
            ELSE IF ~on.val THEN NotOnCurveError
            ELSE [tag |-> "Point", x |-> x, y |-> y, a |-> a, b |-> b]

\* Point.__eq__ as it would be with the fields of the operands compared too:
\* equal only when the two points are the same value.
PointEqWithPrimes(self, other) ==
    IF IsNone(other) THEN Bool(FALSE) ELSE Bool(self = other)

\* Point.__eq__
PointEq(self, other) ==
    IF IsNone(other) THEN Bool(FALSE)
    ELSE Bool(/\ FieldEq(self.x, other.x).val
              /\ FieldEq(self.y, other.y).val
              /\ FieldEq(self.a, other.a).val
              /\ FieldEq(self.b, other.b).val)

\* Point.__add__, the check of line 165: the operands are on one curve.
SameCurve(self, other) ==
    ~(FieldNe(self.a, other.a).val \/ FieldNe(self.b, other.b).val)

\* Point.__add__, the branch taken: 0 is the raise of line 166, 1 to 5 are
\* the returns of lines 169/172, 175, 182, 185 and 192, and 6 is the end of
\* the method, where Python returns None.
AddCase(self, other) ==
    IF ~SameCurve(self, other) THEN 0
    ELSE IF IsNone(self.x) THEN 1
    ELSE IF IsNone(other.x) THEN 1
    ELSE IF FieldEq(self.x, other.x).val /\ FieldNe(self.y, other.y).val THEN 2
    ELSE IF FieldNe(self.x, other.x).val THEN 3
    ELSE IF PointEq(self, other).val /\ FieldEq(self.y, FieldRMul(0, self.x)).val
         THEN 4
    ELSE IF PointEq(self, other).val THEN 5
    ELSE 6

\* Point.__add__, line 178
ChordSlope(self, other) ==
    FieldDiv(FieldSub(other.y, self.y), FieldSub(other.x, self.x))

\* Line 188 with the coefficient 3 of x^2 mistaken for 2.
TangentSlopeTwo(self) ==
    FieldDiv(FieldAdd(FieldRMul(2, FieldPow(self.x, 2)), self.a),
             FieldRMul(2, self.y))

\* Point.__add__, line 188
TangentSlope(self) ==
    FieldDiv(FieldAdd(FieldRMul(3, FieldPow(self.x, 2)), self.a),
             FieldRMul(2, self.y))

\* Point.__add__, lines 179-182
Chord(self, other) ==
    LET s == ChordSlope(self, other)
        x == FieldSub(FieldSub(FieldPow(s, 2), self.x), other.x)
        y == FieldSub(FieldMul(s, FieldSub(self.x, x)), self.y)
    IN Point(x, y, self.a, self.b)

\* Point.__add__, lines 189-192
Tangent(self) ==
    LET s == TangentSlope(self)
        x == FieldSub(FieldPow(s, 2), FieldRMul(2, self.x))
        y == FieldSub(FieldMul(s, FieldSub(self.x, x)), self.y)
    IN Point(x, y, self.a, self.b)

\* Point.__add__.  An operand that is None (the value of an addition that
\* ran off the end of the method) has no attribute a.
PointAdd(self, other) ==
    IF AnyRaise(self, other) THEN Raised(self, other)
    ELSE IF IsNone(self) THEN OperandError
    ELSE IF IsNone(other) THEN AttributeError
    ELSE LET c == AddCase(self, other)
         IN CASE c = 0 -> IncompatibleCurveError
              [] c = 1 -> IF IsNone(self.x) THEN other ELSE self
              [] c = 2 -> Point(None, None, self.a, self.b)
              [] c = 3 -> Chord(self, other)
              [] c = 4 -> Point(None, None, self.a, self.b)
              [] c = 5 -> Tangent(self)
              [] OTHER -> None

\* negate(p) of the specification: the same x, y replaced by zero - y; the
\* identity negates to itself.  ecc.py has no such method.
Negate(p) ==
    IF IsNone(p.x) THEN p
    ELSE Point(p.x, FieldSub(FieldElement(0, p.y.prime), p.y), p.a, p.b)

Identity(a, b) == Point(None, None, a, b)

\* The inefficient way of Point.__rmul__: coefficient additions of self.
RECURSIVE NaiveMul(_, _)
NaiveMul(coefficientN, self) ==
    IF coefficientN <= 0 THEN Point(None, None, self.a, self.b)
    ELSE PointAdd(NaiveMul(coefficientN - 1, self), self)

Coordinates(primes) == UNION {FieldElementsOf(p) : p \in primes} \cup {None}
Parameters(primes) == UNION {FieldElementsOf(p) : p \in primes}

\* Every point Point(x, y, a, b) constructs, a and b FieldElements.
ValidPoints(primes) ==
    {pt \in {Point(x, y, a, b) : x, y \in Coordinates(primes),
                                 a, b \in Parameters(primes)} : IsPoint(pt)}

\* The points that construct on the curve (a, b) with coordinates of its field.
PointsOn(a, b) ==
    {pt \in {Point(x, y, a, b) : x, y \in FieldElementsOf(a.prime)} \cup {Identity(a, b)} :
        IsPoint(pt)}

-----------------------------------------------------------------------------
(* Point(x, y, a, b) applied to drawn arguments *)

InitConstruct ==
    /\ pc = "ready" /\ op = "none"
    /\ px \in Coordinates(Primes)
    /\ py \in Coordinates(Primes)
    /\ pa \in Parameters(Primes)
    /\ pb \in Parameters(Primes)
    /\ NoField /\ NoPoint /\ NoLoop

Construct ==
    /\ pc = "ready"
    /\ pc' = "done"
    /\ op' = "construct"
    /\ pres' = Point(px, py, pa, pb)
    /\ UNCHANGED <<ctorVars, fieldVars, P, Q, R, pres2, loopVars>>

NextConstruct == Construct

SpecConstruct == InitConstruct /\ [][NextConstruct]_vars

-----------------------------------------------------------------------------
(* self + other applied to any two constructed points *)

MixPoints == ValidPoints(PrimesTo(MaxMixPrime))

InitAdd ==
    /\ pc = "ready" /\ op = "none"
    /\ P \in MixPoints
    /\ Q \in MixPoints
    /\ R = Unused /\ pres = Unused /\ pres2 = Unused
    /\ NoField /\ NoCtor /\ NoLoop

PointPlus ==
    /\ pc = "ready"
    /\ pc' = "done"
    /\ op' = "add"
    /\ pres' = PointAdd(P, Q)
    /\ UNCHANGED <<ctorVars, fieldVars, P, Q, R, pres2, loopVars>>

NextAdd == PointPlus

SpecAdd == InitAdd /\ [][NextAdd]_vars

-----------------------------------------------------------------------------
(* Additions of points of one curve *)

\* For each prime, the point sets of its curves, one for each (a, b).
Curves == [p \in Primes |-> {PointsOn(a, b) : a, b \in FieldElementsOf(p)}]

\* The fields are drawn largest first.
InitGroup ==
    /\ pc = "ready" /\ op = "none"
    /\ \E k \in 0..MaxPrime :
           /\ MaxPrime - k \in Primes
           /\ \E points \in Curves[MaxPrime - k] :
                  P \in points /\ Q \in points /\ R \in points
    /\ pres = Unused /\ pres2 = Unused
    /\ NoField /\ NoCtor /\ NoLoop

Compute(name, v1, v2) ==
    /\ pc = "ready"
    /\ pc' = "done"
    /\ op' = name
    /\ pres' = v1
    /\ pres2' = v2
    /\ UNCHANGED <<ctorVars, fieldVars, P, Q, R, loopVars>>

\* (P + Q) + R and P + (Q + R)
Associate == Compute("assoc", PointAdd(PointAdd(P, Q), R), PointAdd(P, PointAdd(Q, R)))

\* P + identity and identity + P
AddIdentity ==
    /\ Q = P /\ R = P
    /\ Compute("identity", PointAdd(P, Identity(P.a, P.b)),
                           PointAdd(Identity(P.a, P.b), P))

\* P + negate(P)
AddInverse ==
    /\ Q = P /\ R = P
    /\ Compute("inverse", PointAdd(P, Negate(P)), Negate(P))

NextGroup == Associate \/ AddIdentity \/ AddInverse

SpecGroup == InitGroup /\ [][NextGroup]_vars

-----------------------------------------------------------------------------
(* coefficient * self, one action for each piece of Point.__rmul__ *)

InitMul ==
    /\ pc = "ready" /\ op = "none"
    /\ \E p \in Primes : \E points \in Curves[p] : P \in points
    /\ coefficient \in (-MaxNegCoef)..MaxCoef
    /\ coef = 0 /\ current = Unused /\ result = Unused /\ iters = 0
    /\ Q = Unused /\ R = Unused /\ pres = Unused /\ pres2 = Unused
    /\ NoField /\ NoCtor

\* lines 204-206
RMulEnter ==
    /\ pc = "ready"
    /\ pc' = "loop"
    /\ op' = "rmul"
    /\ coef' = coefficient
    /\ current' = P
    /\ result' = Point(None, None, P.a, P.b)
    /\ UNCHANGED <<coefficient, iters, ctorVars, fieldVars, pointVars>>

\* lines 208-213: one pass through the loop.  coef & 1 is coef % 2 and
\* coef >> 1 is the floor of coef / 2, for negative coef too.
RMulIterate ==
    /\ pc = "loop"
    /\ coef # 0
    /\ iters < MaxIters
    /\ LET r == IF coef % 2 = 1 THEN PointAdd(result, current) ELSE result
           c == PointAdd(current, current)
       IN IF AnyRaise(r, c)
          THEN /\ pc' = "raised"
               /\ pres' = Raised(r, c)
               /\ UNCHANGED <<coef, current, result, iters>>
          ELSE /\ pc' = "loop"
               /\ result' = r
               /\ current' = c
               /\ coef' = coef \div 2
               /\ iters' = iters + 1
               /\ pres' = pres
    /\ UNCHANGED <<op, coefficient, ctorVars, fieldVars, P, Q, R, pres2>>

\* line 215
RMulReturn ==
    /\ pc = "loop"
    /\ coef = 0
    /\ pc' = "done"
    /\ pres' = result
    /\ UNCHANGED <<op, coefficient, coef, current, result, iters,
                   ctorVars, fieldVars, P, Q, R, pres2>>

NextMul == RMulEnter \/ RMulIterate \/ RMulReturn

SpecMul == InitMul /\ [][NextMul]_vars

-----------------------------------------------------------------------------
(* Claims about Point *)

\* y*y == x*x*x + a*x + b, by mul and add.
CurveEquation(x, y, a, b) ==
    FieldMul(y, y) = FieldAdd(FieldAdd(FieldMul(FieldMul(x, x), x), FieldMul(a, x)), b)

\* C3: for x, y, a, b of one prime field, Point(x, y, a, b) constructs iff
\* mul(y, y) == add(add(mul(mul(x, x), x), mul(a, x)), b) and fails with
\* NotOnCurveError otherwise; with both coordinates None it always constructs.
C3_ConstructIffOnCurve ==
    (pc = "done" /\ op = "construct") =>
        /\ (IsNone(px) /\ IsNone(py)) => IsPoint(pres)
        /\ (/\ IsFE(px) /\ IsFE(py)
            /\ px.prime = pa.prime /\ py.prime = pa.prime /\ pb.prime = pa.prime)
               => IF CurveEquation(px, py, pa, pb)
                  THEN IsPoint(pres)
                  ELSE pres = NotOnCurveError

\* C4: when the curve parameters of the operands differ, in num or in prime,
\* the addition fails with IncompatibleCurveError, whatever the operands
\* (identity included).
C4_MixedCurvesRejected ==
    (pc = "done" /\ op = "add" /\ (P.a # Q.a \/ P.b # Q.b))
        => pres = IncompatibleCurveError

\* C8: every addition of two constructed points that pass the same-curve
\* check is decided by one of the cases 1 to 5; the end of the method, where
\* no point is returned, is never reached.
C8_CaseAnalysisExhaustive ==
    (pc = "done" /\ op = "add" /\ SameCurve(P, Q))
        => AddCase(P, Q) \in 1..5 /\ pres # None

\* An addition decided by the last test of the method (self == other), on
\* operands that pass the same-curve check though their fields differ.
C8_Witness ==
    /\ pc = "done" /\ op = "add"
    /\ SameCurve(P, Q)
    /\ AddCase(P, Q) = 5
    /\ P # Q
    /\ IsPoint(pres)

\* C5: P + identity == P, identity + P == P and P + negate(P) == identity
\* for every point P of every curve over every prime field; none fails.
C5_IdentityAndInverse ==
    /\ (pc = "done" /\ op = "identity") => pres = P /\ pres2 = P
    /\ (pc = "done" /\ op = "inverse")
           => IsPoint(pres2) /\ pres = Identity(P.a, P.b)

\* 4*a^3 + 27*b^2 in the field of a: zero iff the curve is singular.
Discriminant(a, b) == (4 * a.num * a.num * a.num + 27 * b.num * b.num) % a.prime

-----------------------------------------------------------------------------
(* Claims about coefficient * self *)

\* The number of bits of n > 0.
RECURSIVE BitLength(_)
BitLength(n) == IF n <= 0 THEN 0 ELSE 1 + BitLength(n \div 2)

\* C2: for n in 0..20 and every point P of every curve, n * P is the point
\* that n additions of P to the identity give; 0 * P is the identity, and
\* when the additions give a point the multiplication does not fail.
C2_FastEqualsNaive ==
    (pc \in {"done", "raised"} /\ op = "rmul" /\ coefficient \in 0..20)
        => /\ coefficient = 0 => (pc = "done" /\ pres = Identity(P.a, P.b))
           /\ IsPoint(NaiveMul(coefficient, P))
                  => (pc = "done" /\ pres = NaiveMul(coefficient, P))

\* C9: the loop runs only while the coefficient is positive, so it ends for
\* every integer coefficient: after bit-length(coefficient) passes when
\* coefficient > 0, and after no pass, returning the identity, when
\* coefficient <= 0.
C9_LoopEnds ==
    /\ coefficient <= 0 => iters = 0
    /\ coefficient > 0 => iters <= BitLength(coefficient)
    /\ pc = "done" =>
           /\ iters = BitLength(coefficient)
           /\ coefficient <= 0 => pres = Identity(P.a, P.b)

====
